---- MODULE Spec2Model ----
(***************************************************************************)
(* Model of src/task/task.py: the task abstraction layer (Task,            *)
(* MujocoTask, CartPoleTask, AntTask, HalfCheetahTask, SwimmerTask).       *)
(*                                                                         *)
(* Numbers.  A numpy/torch float is an integer v counting twentieths       *)
(* (20 is 1.0, 4 is 0.2, 1 is 0.05), or one of NaN, PosInf, NegInf.  A     *)
(* float32 holds only the even v up to F32Max in magnitude; a float64      *)
(* holds every v.  A value of an integer dtype is a multiple of One.       *)
(***************************************************************************)
EXTENDS Integers, Sequences, FiniteSets, TLC

VARIABLES
    task,          \* the concrete class of the task object
    action_space,  \* self.action_space
    model,         \* self.model: [nq, nv] (articulated-body tasks)
    sim,           \* the simulator's internal state: [qpos, qvel, state]
    op,            \* the operation called last
    args,          \* its arguments
    ret,           \* what it returned, or the error it raised
    trace          \* what the last call did, in order

vars == <<task, action_space, model, sim, op, args, ret, trace>>

(***************************************************************************)
(* Floating-point values                                                   *)
(***************************************************************************)
\* 1.0, in twentieths
One == 2 * 10

PosInf == 10^9
NegInf == -(10^9)
NaN == 2 * 10^9

IsNaN(x) == x = NaN
IsFinite(x) == x \notin {NaN, PosInf, NegInf}

\* IEEE comparisons: every comparison with a NaN is false
Lt(x, y) == ~IsNaN(x) /\ ~IsNaN(y) /\ x < y
Gt(x, y) == Lt(y, x)
Le(x, y) == ~IsNaN(x) /\ ~IsNaN(y) /\ x <= y
Ge(x, y) == Le(y, x)

Neg(x) == IF IsNaN(x) THEN NaN ELSE -x

\* IEEE addition: inf + (-inf) is NaN
Add(x, y) ==
    IF IsNaN(x) \/ IsNaN(y) THEN NaN
    ELSE IF IsFinite(x) /\ IsFinite(y) THEN x + y
    ELSE IF IsFinite(x) THEN y
    ELSE IF IsFinite(y) THEN x
    ELSE IF x = y THEN x ELSE NaN

Sub(x, y) == Add(x, Neg(y))

\* 0.5 * x (the finite values halved here are even)
Half(x) == IF IsFinite(x) THEN x \div 2 ELSE x

\* x ** 2, a finite square in units of 1/400
Sq(x) == IF IsNaN(x) THEN NaN ELSE IF IsFinite(x) THEN x * x ELSE PosInf

RECURSIVE SumSq(_)
\* torch.pow(row, 2).sum()
SumSq(row) == IF Len(row) = 0 THEN 0 ELSE Add(Sq(Head(row)), SumSq(Tail(row)))

\* bool.float()
BoolFloat(b) == IF b THEN One ELSE 0

\* ndarray.round(): to the nearest integer, a tie to the even one
Round(x) ==
    IF ~IsFinite(x) THEN x
    ELSE LET r == x % One
             base == x - r
         IN  IF 2 * r < One THEN base
             ELSE IF 2 * r > One THEN base + One
             ELSE IF (base \div One) % 2 = 0 THEN base ELSE base + One

\* np.clip(x, lo, hi) == minimum(maximum(x, lo), hi); a NaN stays a NaN
Clip(x, lo, hi) ==
    IF IsNaN(x) THEN NaN
    ELSE LET m == IF Lt(x, lo) THEN lo ELSE x
         IN  IF Gt(m, hi) THEN hi ELSE m

F32Max == 1000

\* float64 -> float32: nearest representable value, a tie to the even mantissa
F32(x) ==
    IF ~IsFinite(x) THEN x
    ELSE IF x > F32Max THEN PosInf
    ELSE IF x < -F32Max THEN NegInf
    ELSE IF x % 2 = 0 THEN x
    ELSE IF (x - 1) % 4 = 0 THEN x - 1 ELSE x + 1

IntDtypes == {"int64", "int8"}

\* the most negative integer of an integer dtype (int64's stands in as -10^6)
IntMin(dtype) == IF dtype = "int8" THEN -128 * One ELSE -1000000 * One

\* What the conversion of a NaN or an infinity to an integer dtype can produce: C
\* leaves it undefined; builds give 0 or the most negative integer.
UndefinedCast(dtype) == IF dtype \in IntDtypes THEN {0, IntMin(dtype)} ELSE {0}

\* ndarray.astype(dtype) of one element; ub is what an undefined conversion yields
AsType(x, dtype, ub) ==
    IF dtype = "float64" THEN x
    ELSE IF dtype = "float32" THEN F32(x)
    ELSE IF ~IsFinite(x) THEN ub
    ELSE IF x >= 0 THEN x - (x % One) ELSE -((-x) - ((-x) % One))

\* np.float32(array)
Float32(s) == [i \in DOMAIN s |-> F32(s[i])]

(***************************************************************************)
(* Action spaces (gym.spaces)                                              *)
(***************************************************************************)
Box(low, high, dtype) == [kind |-> "Box", low |-> low, high |-> high, n |-> 0, nvec |-> <<>>, dtype |-> dtype]
Discrete(n) == [kind |-> "Discrete", low |-> <<>>, high |-> <<>>, n |-> n, nvec |-> <<>>, dtype |-> "int64"]
MultiBinary(n) == [kind |-> "MultiBinary", low |-> <<>>, high |-> <<>>, n |-> n, nvec |-> <<>>, dtype |-> "int8"]
MultiDiscrete(nvec) == [kind |-> "MultiDiscrete", low |-> <<>>, high |-> <<>>, n |-> 0, nvec |-> nvec, dtype |-> "int64"]
NoSpace == [kind |-> "None", low |-> <<>>, high |-> <<>>, n |-> 0, nvec |-> <<>>, dtype |-> "none"]
\* a space of a kind reformat_action has no branch for (gym.spaces.Tuple, Dict)
TupleSpace == [kind |-> "Tuple", low |-> <<>>, high |-> <<>>, n |-> 1, nvec |-> <<>>, dtype |-> "none"]

\* the number of elements an action of the space has (0: any)
Dim(space) ==
    IF space.kind = "Box" THEN Len(space.low)
    ELSE IF space.kind = "Discrete" THEN 1
    ELSE IF space.kind = "MultiBinary" THEN space.n
    ELSE IF space.kind = "MultiDiscrete" THEN Len(space.nvec)
    ELSE 0

\* bool(self.action_space): None is false, a space object is true
Truthy(space) == space.kind # "None"

(***************************************************************************)
(* Task.reformat_action                                                    *)
(***************************************************************************)
Returned(a) == [raised |-> "none", action |-> a]
Raised(e) == [raised |-> e, action |-> <<>>]

\* reformat_action with one bound, the first dimension's, for a whole multi-discrete action
reformat_action_shared_bound(space, action, ub) ==
    IF space.kind = "Box"
    THEN Returned([i \in DOMAIN action |-> AsType(action[i], space.dtype, ub)])
    ELSE IF space.kind = "Discrete"
    THEN Returned([i \in DOMAIN action |->
            AsType(Clip(Round(action[i]), 0, (space.n - 1) * One), "int64", ub)])
    ELSE IF space.kind = "MultiBinary"
    THEN Returned([i \in DOMAIN action |->
            AsType(Clip(Round(action[i]), 0, One), space.dtype, ub)])
    ELSE IF space.kind = "MultiDiscrete"
    THEN Returned([i \in DOMAIN action |->
            AsType(Clip(Round(action[i]), 0, (space.nvec[1] - 1) * One), space.dtype, ub)])
    ELSE IF space.kind = "None"
    THEN Returned(action)
    ELSE Raised("NotImplementedError")

\* reformat_action with no error for a space of an unknown kind
reformat_action_lenient(space, action, ub) ==
    IF space.kind = "Box"
    THEN Returned([i \in DOMAIN action |-> AsType(action[i], space.dtype, ub)])
    ELSE IF space.kind = "Discrete"
    THEN Returned([i \in DOMAIN action |->
            AsType(Clip(Round(action[i]), 0, (space.n - 1) * One), "int64", ub)])
    ELSE IF space.kind = "MultiBinary"
    THEN Returned([i \in DOMAIN action |->
            AsType(Clip(Round(action[i]), 0, One), space.dtype, ub)])
    ELSE IF space.kind = "MultiDiscrete"
    THEN Returned([i \in DOMAIN action |->
            AsType(Clip(Round(action[i]), 0, (space.nvec[i] - 1) * One), space.dtype, ub)])
    ELSE Returned(action)

reformat_action(space, action, ub) ==
    IF space.kind = "Box"
    THEN Returned([i \in DOMAIN action |-> AsType(action[i], space.dtype, ub)])
    ELSE IF space.kind = "Discrete"
    THEN Returned([i \in DOMAIN action |->
            AsType(Clip(Round(action[i]), 0, (space.n - 1) * One), "int64", ub)])
    ELSE IF space.kind = "MultiBinary"
    THEN Returned([i \in DOMAIN action |->
            AsType(Clip(Round(action[i]), 0, One), space.dtype, ub)])
    ELSE IF space.kind = "MultiDiscrete"
    THEN Returned([i \in DOMAIN action |->
            AsType(Clip(Round(action[i]), 0, (space.nvec[i] - 1) * One), space.dtype, ub)])
    ELSE IF space.kind = "None"
    THEN Returned(action)
    ELSE Raised("NotImplementedError")

(***************************************************************************)
(* The task object and its native simulator                                *)
(***************************************************************************)
\* "Task" is a task that inherits every method of Task unchanged, over some
\* native gym environment.
Tasks == {"Task", "AntTask", "HalfCheetahTask", "SwimmerTask", "CartPoleTask"}
MujocoTasks == {"AntTask", "HalfCheetahTask", "SwimmerTask"}

Vectors(n, S) == [1..n -> S]

\* values a simulator coordinate takes (3 is no float32)
SimVals == {0, 3}

\* self.model of the task: nq positions and nv velocities
Model(t) == IF t \in MujocoTasks THEN [nq |-> 2, nv |-> 1] ELSE [nq |-> 0, nv |-> 0]

\* the internal states of the native simulator of task t
SimStates(t) ==
    IF t \in MujocoTasks
    THEN {[qpos |-> p, qvel |-> v, state |-> <<>>] :
            p \in Vectors(Model(t).nq, SimVals), v \in Vectors(Model(t).nv, SimVals)}
    ELSE IF t = "CartPoleTask"
    THEN {[qpos |-> <<>>, qvel |-> <<>>, state |-> s] :
            s \in {<<0, 0, 0, 0>>, <<3, 0, 0, 0>>,
                   <<0, 0, 3, 0>>, <<3, 3, 3, 3>>}}
    ELSE {[qpos |-> <<>>, qvel |-> <<>>, state |-> s] : s \in Vectors(1, SimVals)}

\* the state a simulator is constructed in
InitSim(t) ==
    IF t \in MujocoTasks
    THEN [qpos |-> [i \in 1..Model(t).nq |-> 0], qvel |-> [i \in 1..Model(t).nv |-> 0],
          state |-> <<>>]
    ELSE IF t = "CartPoleTask"
    THEN [qpos |-> <<>>, qvel |-> <<>>, state |-> [i \in 1..4 |-> 0]]
    ELSE [qpos |-> <<>>, qvel |-> <<>>, state |-> <<0>>]

\* the action spaces a task of class t is built with
Spaces(t) ==
    IF t = "AntTask"
    THEN {Box(<<-4, 0>>, <<4, 8>>, "float32"), NoSpace, TupleSpace}
    ELSE IF t \in MujocoTasks
    THEN {Box(<<-4>>, <<4>>, "float32")}
    ELSE IF t = "CartPoleTask"
    THEN {Discrete(2), TupleSpace}
    ELSE {Box(<<-4>>, <<8>>, "float32"), Box(<<-3>>, <<7>>, "float64"),
          Discrete(3), MultiBinary(2), MultiDiscrete(<<2, 4>>), NoSpace, TupleSpace}

\* MujocoTask._get_obs
get_obs(s) == s.qpos \o s.qvel

\* the observation the native simulator returns for its state s
NativeObs(t, s) == IF t \in MujocoTasks THEN get_obs(s) ELSE s.state

\* the rewards a native step returns
Rewards(t) == IF t = "CartPoleTask" THEN {0, One} ELSE {One}

\* What a native step can return and leave behind: the simulator is an external
\* collaborator, so every next state, reward and done flag is possible.
NativeOutcomes(t) ==
    {[sim |-> s, next_state |-> NativeObs(t, s), reward |-> r, done |-> d, info |-> "info"] :
        s \in SimStates(t), r \in Rewards(t), d \in BOOLEAN}

Call(name, a) == [call |-> name, arg |-> a]

StepRaised(e, tr) == [raised |-> e, trace |-> tr, stepped |-> FALSE,
                      next_state |-> <<>>, reward |-> 0, done |-> FALSE, info |-> "none"]

\* Task.step stepping the native simulator with the raw action and normalizing after
Task_step_native_first(space, action, ub, out) ==
    LET r == reformat_action(space, action, ub)
    IN  IF r.raised # "none"
        THEN StepRaised(r.raised, <<Call("native.step", action), Call("reformat_action", action)>>)
        ELSE [raised |-> "none",
              trace |-> <<Call("native.step", action), Call("reformat_action", action)>>,
              stepped |-> TRUE,
              next_state |-> Float32(out.next_state),
              reward |-> out.reward, done |-> out.done, info |-> out.info]

\* Task.step; out is what the native step returns when it is reached
Task_step(space, action, ub, out) ==
    LET r == reformat_action(space, action, ub)
    IN  IF r.raised # "none"
        THEN StepRaised(r.raised, <<Call("reformat_action", action)>>)
        ELSE [raised |-> "none",
              trace |-> <<Call("reformat_action", action), Call("native.step", r.action)>>,
              stepped |-> TRUE,
              next_state |-> Float32(out.next_state),
              reward |-> out.reward, done |-> out.done, info |-> out.info]

\* MujocoTask.step without the clip into [low, high]
MujocoTask_step_unclipped(space, action, ub, out) ==
    LET r == reformat_action(space, action, ub)
    IN  IF r.raised # "none"
        THEN StepRaised(r.raised, <<Call("reformat_action", action)>>)
        ELSE LET t == Task_step(space, r.action, ub, out)
             IN  [t EXCEPT !.trace = <<Call("reformat_action", action)>> \o @,
                           !.next_state = Float32(@)]

\* MujocoTask.step
MujocoTask_step(space, action, ub, out) ==
    LET r == reformat_action(space, action, ub)
    IN  IF r.raised # "none"
        THEN StepRaised(r.raised, <<Call("reformat_action", action)>>)
        ELSE IF Truthy(space) /\ space.kind # "Box"
        THEN StepRaised("AttributeError", <<Call("reformat_action", action)>>)
        ELSE LET clipped == IF Truthy(space)
                            THEN [i \in DOMAIN r.action |-> Clip(r.action[i], space.low[i], space.high[i])]
                            ELSE r.action
                 head == IF Truthy(space)
                         THEN <<Call("reformat_action", action), Call("np.clip", r.action)>>
                         ELSE <<Call("reformat_action", action)>>
                 t == Task_step(space, clipped, ub, out)
             IN  [t EXCEPT !.trace = head \o @, !.next_state = Float32(@)]

\* CartPoleTask.step that keeps the native reward when done
CartPoleTask_step_keeps_reward(space, action, ub, out) ==
    IF Len(action) # 1
    THEN StepRaised("TypeError", <<>>)
    ELSE LET r == reformat_action(space, action, ub)
         IN  IF r.raised # "none"
             THEN StepRaised(r.raised, <<Call("reformat_action", action)>>)
             ELSE LET t == Task_step(space, r.action, ub, out)
                  IN  [t EXCEPT !.trace = <<Call("reformat_action", action)>> \o @,
                                !.next_state = Float32(@)]

\* CartPoleTask.step
CartPoleTask_step(space, action, ub, out) ==
    IF Len(action) # 1
    THEN StepRaised("TypeError", <<>>)
    ELSE LET r == reformat_action(space, action, ub)
         IN  IF r.raised # "none"
             THEN StepRaised(r.raised, <<Call("reformat_action", action)>>)
             ELSE LET t == Task_step(space, r.action, ub, out)
                  IN  [t EXCEPT !.trace = <<Call("reformat_action", action)>> \o @,
                                !.reward = IF t.done THEN 0 ELSE @,
                                !.next_state = Float32(@)]

\* the step method the task's class resolves to
step(t, space, action, ub, out) ==
    IF t \in MujocoTasks THEN MujocoTask_step(space, action, ub, out)
    ELSE IF t = "CartPoleTask" THEN CartPoleTask_step(space, action, ub, out)
    ELSE Task_step(space, action, ub, out)

\* set_new_state that splits the state at nv, the velocities' count
MujocoTask_set_new_state_split_at_nv(m, s, state) ==
    LET qpos == SubSeq(state, 1, IF Len(state) < m.nv THEN Len(state) ELSE m.nv)
        qvel == SubSeq(state, m.nv + 1, IF Len(state) < m.nq + m.nv THEN Len(state) ELSE m.nq + m.nv)
    IN  [raised |-> "none", sim |-> [s EXCEPT !.qpos = qpos, !.qvel = qvel]]

\* MujocoTask.set_new_state over MujocoEnv.set_state, which asserts the shapes
\* (nq,) and (nv,) of the two slices and then writes them
MujocoTask_set_new_state(m, s, state) ==
    LET qpos == SubSeq(state, 1, IF Len(state) < m.nq THEN Len(state) ELSE m.nq)
        qvel == SubSeq(state, m.nq + 1, IF Len(state) < m.nq + m.nv THEN Len(state) ELSE m.nq + m.nv)
    IN  IF Len(qpos) = m.nq /\ Len(qvel) = m.nv
        THEN [raised |-> "none", sim |-> [s EXCEPT !.qpos = qpos, !.qvel = qvel]]
        ELSE [raised |-> "AssertionError", sim |-> s]

\* CartPoleTask.set_new_state
CartPoleTask_set_new_state(m, s, state) == [raised |-> "none", sim |-> [s EXCEPT !.state = state]]

set_new_state(t, m, s, state) ==
    IF t \in MujocoTasks THEN MujocoTask_set_new_state(m, s, state)
    ELSE CartPoleTask_set_new_state(m, s, state)

(***************************************************************************)
(* get_cost, get_reset_state, get_control_params                           *)
(***************************************************************************)
\* CartPoleEnv.x_threshold (2.4) and theta_threshold_radians (12 degrees, to the
\* model's resolution)
x_threshold == 48
theta_threshold_radians == 4

Column(batch, j) == [i \in DOMAIN batch |-> batch[i][j]]

\* CartPoleTask.get_cost with a state on a threshold counted as done
CartPoleTask_get_cost_inclusive(state, action, next_state) ==
    LET x == Column(next_state, 1)
        theta == Column(next_state, 3)
        done == [i \in DOMAIN next_state |->
                    BoolFloat(\/ Le(x[i], -x_threshold)
                              \/ Ge(x[i], x_threshold)
                              \/ Le(theta[i], -theta_threshold_radians)
                              \/ Ge(theta[i], theta_threshold_radians))]
    IN  [raised |-> "none",
         cost |-> [i \in DOMAIN done |-> Sub(done[i], One)],
         done |-> [i \in DOMAIN done |-> <<done[i]>>]]

\* CartPoleTask.get_cost
CartPoleTask_get_cost(state, action, next_state) ==
    LET x == Column(next_state, 1)
        theta == Column(next_state, 3)
        done == [i \in DOMAIN next_state |->
                    BoolFloat(\/ Lt(x[i], -x_threshold)
                              \/ Gt(x[i], x_threshold)
                              \/ Lt(theta[i], -theta_threshold_radians)
                              \/ Gt(theta[i], theta_threshold_radians))]
    IN  [raised |-> "none",
         cost |-> [i \in DOMAIN done |-> Sub(done[i], One)],
         done |-> [i \in DOMAIN done |-> <<done[i]>>]]

\* One entry of an articulated-body cost: the two quantities it is computed from.
\* The cost is -(dx / self.dt + c * sumsq + survive), c and survive being the task's.
CostEntry(xposbefore, xposafter, actionrow) ==
    [dx |-> Sub(xposafter, xposbefore), sumsq |-> SumSq(actionrow)]

\* AntTask.get_cost with isfinite taken over the whole batch, not row by row
AntTask_get_cost_whole_batch(state, action, next_state) ==
    LET finite == \A i \in DOMAIN next_state : \A j \in DOMAIN next_state[i] : IsFinite(next_state[i][j])
        notdone == [i \in DOMAIN next_state |->
                        /\ finite
                        /\ Ge(next_state[i][3], 4)
                        /\ Le(next_state[i][3], One)]
    IN  [raised |-> "none",
         cost |-> [i \in DOMAIN next_state |-> CostEntry(state[i][1], next_state[i][1], action[i])],
         done |-> [i \in DOMAIN notdone |-> <<BoolFloat(~notdone[i])>>]]

\* AntTask.get_cost
AntTask_get_cost(state, action, next_state) ==
    LET notdone == [i \in DOMAIN next_state |->
                        /\ \A j \in DOMAIN next_state[i] : IsFinite(next_state[i][j])
                        /\ Ge(next_state[i][3], 4)
                        /\ Le(next_state[i][3], One)]
    IN  [raised |-> "none",
         cost |-> [i \in DOMAIN next_state |-> CostEntry(state[i][1], next_state[i][1], action[i])],
         done |-> [i \in DOMAIN notdone |-> <<BoolFloat(~notdone[i])>>]]

\* HalfCheetahTask.get_cost that ends a row whose next state is not finite
HalfCheetahTask_get_cost_terminal(state, action, next_state) ==
    [raised |-> "none",
     cost |-> [i \in DOMAIN next_state |-> CostEntry(state[i][1], next_state[i][1], action[i])],
     done |-> [i \in 1..Len(state) |->
                <<BoolFloat(\E j \in DOMAIN next_state[i] : ~IsFinite(next_state[i][j]))>>]]

\* HalfCheetahTask.get_cost
HalfCheetahTask_get_cost(state, action, next_state) ==
    [raised |-> "none",
     cost |-> [i \in DOMAIN next_state |-> CostEntry(state[i][1], next_state[i][1], action[i])],
     done |-> [i \in 1..Len(state) |-> <<0>>]]

\* SwimmerTask.get_cost
SwimmerTask_get_cost(state, action, next_state) ==
    [raised |-> "none",
     cost |-> [i \in DOMAIN next_state |-> CostEntry(state[i][1], next_state[i][1], action[i])],
     done |-> [i \in 1..Len(state) |-> <<0>>]]

\* the get_cost the task's class resolves to; Task.get_cost raises
get_cost(t, state, action, next_state) ==
    IF t = "CartPoleTask" THEN CartPoleTask_get_cost(state, action, next_state)
    ELSE IF t = "AntTask" THEN AntTask_get_cost(state, action, next_state)
    ELSE IF t = "HalfCheetahTask" THEN HalfCheetahTask_get_cost(state, action, next_state)
    ELSE IF t = "SwimmerTask" THEN SwimmerTask_get_cost(state, action, next_state)
    ELSE [raised |-> "NotImplementedError"]

\* One row's random draws: u for the uniform_ noise, g for randn * 0.1. The
\* uniform draw lies in the interval given; every element of the row shares it.
Draws(t) ==
    IF t = "CartPoleTask" THEN {[u |-> -1, g |-> 0], [u |-> 0, g |-> 0]}
    ELSE {[u |-> -2, g |-> -8], [u |-> 0, g |-> 6]}

\* get_reset_state of the task's class, for the n rows of draws w
get_reset_state(t, m, w) ==
    IF t = "CartPoleTask"
    THEN [raised |-> "none", state |-> [i \in DOMAIN w |-> [j \in 1..4 |-> w[i].u]]]
    ELSE IF t \in {"AntTask", "HalfCheetahTask"}
    THEN [raised |-> "none",
          state |-> [i \in DOMAIN w |->
                        [j \in 1..m.nq |-> Add(F32(InitSim(t).qpos[j]), w[i].u)] \o
                        [j \in 1..m.nv |-> Add(F32(InitSim(t).qvel[j]), w[i].g)]]]
    ELSE IF t = "SwimmerTask"
    THEN [raised |-> "none",
          state |-> [i \in DOMAIN w |->
                        [j \in 1..m.nq |-> Add(F32(InitSim(t).qpos[j]), w[i].u)] \o
                        [j \in 1..m.nv |-> Add(F32(InitSim(t).qvel[j]), w[i].u)]]]
    ELSE [raised |-> "NotImplementedError"]

\* MujocoTask.get_control_params
MujocoTask_get_control_params(space) ==
    IF space.kind # "Box" THEN [raised |-> "AttributeError"]
    ELSE LET sigma == [i \in DOMAIN space.low |-> Half(Sub(space.high[i], space.low[i]))]
             mean == [i \in DOMAIN space.low |-> Add(space.low[i], sigma[i])]
         IN  [raised |-> "none", mu |-> 0, sigma |-> sigma, u_init |-> Float32(mean)]

\* CartPoleTask.get_control_params
CartPoleTask_get_control_params == [raised |-> "none", mu |-> 0, sigma |-> 10, u_init |-> <<10>>]

get_control_params(t, space) ==
    IF t \in MujocoTasks THEN MujocoTask_get_control_params(space)
    ELSE IF t = "CartPoleTask" THEN CartPoleTask_get_control_params
    ELSE [raised |-> "NotImplementedError"]

(***************************************************************************)
(* The calls a controller makes                                            *)
(***************************************************************************)
MaxBatch == 2
MaxN == 2

\* raw action elements that cover the cases of rounding, clamping and casting
RawVals == {NaN, NegInf, PosInf, -2000, -50, -10, -3, 0, 3, 7, 9, 10, 11, 30, 50, 2000}

\* raw action elements a caller passes to step
StepVals == {NaN, -50, 0, 3, 2000}

\* the actions a caller may pass to the step of a task with the given space
RawActions(t, space) ==
    IF Dim(space) = 0 THEN Vectors(1, StepVals)
    ELSE Vectors(Dim(space), StepVals)

\* the state vectors a caller may pass to set_new_state
NewStates(t) ==
    IF t \in MujocoTasks
    THEN Vectors(Model(t).nq + Model(t).nv, SimVals)
         \cup {<<3, 0>>, <<3, 0, 3, 3>>}
    ELSE {s.state : s \in SimStates(t)}

Row(s, a, n) == [state |-> s, action |-> a, next_state |-> n]

\* rows a controller evaluates between steps
FewRows(t) ==
    IF t = "CartPoleTask"
    THEN {Row(<<0, 0, 0, 0>>, <<One>>, <<49, 0, 0, 0>>),
          Row(<<0, 0, 0, 0>>, <<0>>, <<2, 0, 1, 0>>)}
    ELSE {Row(<<0, 0, 10>>, <<One>>, <<2, 0, 10>>),
          Row(<<0, 0, 10>>, <<0>>, <<2, 0, NaN>>)}

\* rows that cover the cases of each task's cost and done rule
ManyRows(t) ==
    IF t = "CartPoleTask"
    THEN {Row(<<0, 0, 0, 0>>, <<One>>, <<x, 0, 0, 0>>) : x \in {-49, -48, 0, 48, 49, NaN, PosInf}}
         \cup {Row(<<0, 0, 0, 0>>, <<0>>, <<0, 0, th, 0>>) : th \in {-5, -4, 4, 5, NaN, NegInf}}
         \cup {Row(<<60, 0, 9, 0>>, <<0>>, <<0, PosInf, 0, NaN>>),
               Row(<<NaN, 0, NaN, 0>>, <<2000>>, <<48, 60, -4, -60>>),
               Row(<<0, 0, 0, 0>>, <<0>>, <<-49, 0, NaN, 0>>),
               Row(<<0, 0, 0, 0>>, <<0>>, <<NaN, 0, 5, 0>>)}
    ELSE IF t = "AntTask"
    THEN {Row(<<0, 0, 10>>, <<One, 0>>, <<2, 0, h>>) : h \in {3, 4, 10, One, 21, NaN, PosInf, NegInf}}
         \cup {Row(<<0, 0, 10>>, <<0, 0>>, <<x, y, 10>>) : x \in {NaN, PosInf}, y \in {0, NegInf}}
         \cup {Row(<<NaN, PosInf, 0>>, <<NaN, 2000>>, <<2, 0, 10>>),
               Row(<<0, 0, 30>>, <<0, 0>>, <<0, NegInf, One>>),
               Row(<<0, 0, 30>>, <<0, 0>>, <<0, 0, 4>>)}
    ELSE {Row(<<xb, 0, 0>>, <<a>>, <<xa, 0, 0>>) :
            xb \in {0, NaN}, a \in {One, PosInf}, xa \in {2, NaN, NegInf}}
         \cup {Row(<<0, 0, 0>>, <<0>>, <<2, y, 30>>) : y \in {NaN, PosInf}}

\* the batches of up to MaxBatch rows drawn from R
Batches(R) ==
    UNION {{[state |-> [i \in 1..k |-> b[i].state], action |-> [i \in 1..k |-> b[i].action],
             next_state |-> [i \in 1..k |-> b[i].next_state]] : b \in [1..k -> R]} : k \in 1..MaxBatch}

Init ==
    /\ task \in Tasks
    /\ action_space \in Spaces(task)
    /\ model = Model(task)
    /\ sim = InitSim(task)
    /\ op = "init"
    /\ args = <<>>
    /\ ret = [raised |-> "none"]
    /\ trace = <<>>

\* task.step(action)
Step ==
    \E action \in RawActions(task, action_space), ub \in UndefinedCast(action_space.dtype),
       out \in NativeOutcomes(task) :
        \E r \in {step(task, action_space, action, ub, out)} :
            /\ op' = "step"
            /\ args' = action
            /\ trace' = r.trace
            /\ sim' = IF r.stepped THEN out.sim ELSE sim
            /\ ret' = IF r.raised # "none" THEN [raised |-> r.raised]
                      ELSE [raised |-> "none", next_state |-> r.next_state, reward |-> r.reward,
                            done |-> r.done, info |-> r.info,
                            native |-> [next_state |-> out.next_state, reward |-> out.reward,
                                        done |-> out.done, info |-> out.info]]
            /\ UNCHANGED <<task, action_space, model>>

\* task.reset(): Task.reset over the native reset, which draws a fresh state
Reset ==
    \E s \in SimStates(task) :
        /\ op' = "reset"
        /\ args' = <<>>
        /\ trace' = <<Call("native.reset", <<>>)>>
        /\ sim' = s
        /\ ret' = [raised |-> "none", state |-> Float32(NativeObs(task, s))]
        /\ UNCHANGED <<task, action_space, model>>

\* task.set_new_state(state)
SetNewState ==
    /\ task # "Task"
    /\ \E state \in NewStates(task) :
        \E r \in {set_new_state(task, model, sim, state)} :
            /\ op' = "set_new_state"
            /\ args' = state
            /\ trace' = <<>>
            /\ sim' = r.sim
            /\ ret' = [raised |-> r.raised]
            /\ UNCHANGED <<task, action_space, model>>

\* reading the composed observation: task._get_obs()
GetObs ==
    /\ task \in MujocoTasks
    /\ op' = "_get_obs"
    /\ args' = <<>>
    /\ trace' = <<>>
    /\ ret' = [raised |-> "none", obs |-> get_obs(sim)]
    /\ UNCHANGED <<task, action_space, model, sim>>

\* task.get_cost(state, action, next_state) on a batch drawn from rows R
GetCost(R) ==
    \E b \in Batches(R) :
        /\ op' = "get_cost"
        /\ args' = b
        /\ trace' = <<>>
        /\ ret' = get_cost(task, b.state, b.action, b.next_state)
        /\ UNCHANGED <<task, action_space, model, sim>>

\* get_reset_state that writes its first sample into the simulator
GetResetStateInPlace ==
    \E n \in 1..MaxN : \E w \in [1..n -> Draws(task)] :
        \E r \in {get_reset_state(task, model, w)} :
            /\ op' = "get_reset_state"
            /\ args' = n
            /\ trace' = <<>>
            /\ ret' = r
            /\ sim' = IF r.raised # "none" THEN sim
                      ELSE IF task \in MujocoTasks
                      THEN [sim EXCEPT !.qpos = SubSeq(r.state[1], 1, model.nq),
                                       !.qvel = SubSeq(r.state[1], model.nq + 1, model.nq + model.nv)]
                      ELSE [sim EXCEPT !.state = r.state[1]]
            /\ UNCHANGED <<task, action_space, model>>

\* task.get_reset_state(n)
GetResetState ==
    \E n \in 1..MaxN : \E w \in [1..n -> Draws(task)] :
        /\ op' = "get_reset_state"
        /\ args' = n
        /\ trace' = <<>>
        /\ ret' = get_reset_state(task, model, w)
        /\ UNCHANGED <<task, action_space, model, sim>>

\* task.reformat_action(action) on an action with elements drawn from V
ReformatAction(V) ==
    \E action \in Vectors(IF Dim(action_space) = 0 THEN 1 ELSE Dim(action_space), V),
       ub \in UndefinedCast(action_space.dtype) :
        /\ op' = "reformat_action"
        /\ args' = action
        /\ trace' = <<>>
        /\ ret' = reformat_action(action_space, action, ub)
        /\ UNCHANGED <<task, action_space, model, sim>>

\* task.get_control_params()
GetControlParams ==
    /\ op' = "get_control_params"
    /\ args' = <<>>
    /\ trace' = <<>>
    /\ ret' = get_control_params(task, action_space)
    /\ UNCHANGED <<task, action_space, model, sim>>

Next ==
    \/ Step
    \/ Reset
    \/ SetNewState
    \/ GetObs
    \/ ReformatAction(StepVals)
    \/ GetCost(FewRows(task))
    \/ GetResetState
    \/ GetControlParams

Spec == Init /\ [][Next]_vars

\* One call of reformat_action on a fresh task, over the whole range of raw values
NextReformat == op = "init" /\ ReformatAction(RawVals)

SpecReformat == Init /\ [][NextReformat]_vars

\* One call of get_cost on a fresh task, over the rows that cover its cases
InitCost == Init /\ task # "Task" /\ action_space.kind \in {"Box", "Discrete"}

NextCost == op = "init" /\ GetCost(ManyRows(task))

SpecCost == InitCost /\ [][NextCost]_vars

(***************************************************************************)
(* Properties                                                              *)
(***************************************************************************)
Abs(k) == IF k < 0 THEN -k ELSE k

\* the integers 0 .. hi of an integer dtype
IntsUpTo(hi) == {k * One : k \in 0..hi}

\* the largest value reformat_action may return for element i of an action
UpperBound(space, i) ==
    IF space.kind = "Discrete" THEN space.n - 1
    ELSE IF space.kind = "MultiBinary" THEN 1
    ELSE space.nvec[i] - 1

\* y is raw value a rounded to an integer and clamped into [0, hi]: the integer of
\* the range nearest to a
RoundedAndClamped(a, y, hi) ==
    /\ y \in IntsUpTo(hi)
    /\ a = PosInf => y = hi * One
    /\ a = NegInf => y = 0
    /\ IsFinite(a) => \A z \in IntsUpTo(hi) : Abs(y - a) <= Abs(z - a)

IntegerSpaces == {"Discrete", "MultiBinary", "MultiDiscrete"}

\* C1 as stated: for every raw action value, reformat_action returns the value
\* rounded and clamped into the declared space (each dimension into its own range),
\* and never a value out of range.
C1_EveryValue ==
    (op = "reformat_action" /\ action_space.kind \in IntegerSpaces) =>
        \A i \in DOMAIN args :
            /\ ret.action[i] \in IntsUpTo(UpperBound(action_space, i))
            /\ ~IsNaN(args[i]) => RoundedAndClamped(args[i], ret.action[i], UpperBound(action_space, i))

\* C1 (amended): for every raw action value other than NaN, reformat_action returns
\* the value rounded and clamped into the declared space: [0, n-1] for a discrete
\* space, [0, 1] for a multi-binary space, each dimension i into its own
\* [0, nvec_i - 1] for a multi-discrete space.
C1_Clamped ==
    (op = "reformat_action" /\ action_space.kind \in IntegerSpaces) =>
        \A i \in DOMAIN args :
            ~IsNaN(args[i]) => RoundedAndClamped(args[i], ret.action[i], UpperBound(action_space, i))

C1_Witness ==
    /\ op = "reformat_action"
    /\ action_space = MultiDiscrete(<<2, 4>>)
    /\ args = <<-2000, 2000>>
    /\ ret.action = <<0, 3 * One>>

\* the places in the last call's trace where `name` was called
Calls(name) == {i \in DOMAIN trace : trace[i].call = name}

Normalized == Calls("reformat_action")
Stepped == Calls("native.step")

\* C2 as stated: every step call invokes reformat_action exactly once, before the
\* native simulator's step; get_cost never invokes it.
C2_ExactlyOnce ==
    /\ (op = "step" /\ ret.raised = "none") =>
            /\ Cardinality(Normalized) = 1
            /\ \A i \in Normalized, j \in Stepped : i < j
    /\ op = "get_cost" => Normalized = {}

\* C2 (amended): every step call that reaches the native simulator steps it once,
\* after every invocation of reformat_action; reformat_action is invoked once on a
\* task that inherits Task.step and twice on an articulated-body or cart-pole task
\* (in the class's own step and again in Task.step); get_cost never invokes it.
C2_BeforeNativeStep ==
    /\ (op = "step" /\ ret.raised = "none") =>
            /\ Cardinality(Stepped) = 1
            /\ Cardinality(Normalized) = IF task = "Task" THEN 1 ELSE 2
            /\ \A i \in Normalized, j \in Stepped : i < j
    /\ op = "get_cost" => Normalized = {}

C2_Witness ==
    /\ op = "step"
    /\ task = "AntTask"
    /\ ret.raised = "none"
    /\ Normalized = {1, 3}
    /\ Stepped = {4}

\* the action the native simulator's step received in the last call
Delivered == trace[Len(trace)].arg

\* d is a held as a float32: a itself when a float32 holds it, else a neighbour
AsFloat32(a, d) == IF a % 2 = 0 THEN d = a ELSE d % 2 = 0 /\ Abs(d - a) = 1

BoxStep ==
    /\ op = "step"
    /\ task \in MujocoTasks
    /\ action_space.kind = "Box"
    /\ ret.raised = "none"

ClippedInto(a, d, lo, hi) ==
    /\ Le(lo, d) /\ Le(d, hi)
    /\ Lt(a, lo) => d = lo
    /\ Gt(a, hi) => d = hi
    /\ (Le(lo, a) /\ Le(a, hi)) => AsFloat32(a, d)

\* C3 as stated: on an articulated-body task with a bounded-continuous space, for
\* every raw action the action that reaches the native step lies element-wise in
\* [low, high]: below low arrives as low, above high as high, in range as itself.
C3_EveryAction ==
    BoxStep => \A i \in DOMAIN args :
        ClippedInto(args[i], Delivered[i], action_space.low[i], action_space.high[i])

\* C3 (amended): on an articulated-body task with a bounded-continuous space, every
\* element of the raw action that is not NaN reaches the native step within
\* [low, high]: below low arrives as low, above high as high, in range as itself
\* (as the float32 the space declares).
C3_ClippedUnlessNaN ==
    BoxStep => \A i \in DOMAIN args :
        ~IsNaN(args[i]) =>
            ClippedInto(args[i], Delivered[i], action_space.low[i], action_space.high[i])

C3_Witness ==
    /\ BoxStep
    /\ task = "AntTask"
    /\ args = <<-50, 2000>>
    /\ Delivered = <<-4, 8>>

KnownKinds == {"Box", "Discrete", "MultiBinary", "MultiDiscrete", "None"}

\* C4: with an action space of an unknown kind, reformat_action raises
\* NotImplementedError and step raises it too, leaving the simulator state as it
\* was and the native step uncalled; with no action space (None), reformat_action
\* returns the action unchanged.
C4_UnsupportedSpace ==
    [][/\ (op' = "reformat_action" /\ action_space.kind \notin KnownKinds) =>
            ret'.raised = "NotImplementedError"
       /\ (op' = "reformat_action" /\ action_space.kind = "None") =>
            (ret'.raised = "none" /\ ret'.action = args')
       /\ (op' = "step" /\ action_space.kind \notin KnownKinds) =>
            /\ ret'.raised = "NotImplementedError"
            /\ sim' = sim
            /\ \A i \in DOMAIN trace' : trace'[i].call # "native.step"]_vars

C4_Witness ==
    /\ op = "step"
    /\ action_space = TupleSpace
    /\ ret.raised = "NotImplementedError"
    /\ sim # InitSim(task)

GetCostOf(t) == op = "get_cost" /\ task = t /\ ret.raised = "none"

N == Len(args.next_state)

\* C5: cart-pole get_cost, row by row: done is 1 exactly when x or theta of the
\* next state lies strictly beyond its threshold, else 0; cost is done - 1; nothing
\* but columns 0 and 2 of next_state decides either.
C5_CartPoleCost ==
    GetCostOf("CartPoleTask") =>
        /\ Len(ret.done) = N /\ Len(ret.cost) = N
        /\ \A i \in 1..N :
            LET x == args.next_state[i][1]
                theta == args.next_state[i][3]
                beyond == \/ (~IsNaN(x) /\ (x < -x_threshold \/ x > x_threshold))
                          \/ (~IsNaN(theta) /\ (theta < -theta_threshold_radians
                                                \/ theta > theta_threshold_radians))
            IN  /\ ret.done[i] = IF beyond THEN <<One>> ELSE <<0>>
                /\ ret.cost[i] = IF beyond THEN 0 ELSE -One

C5_Witness ==
    /\ GetCostOf("CartPoleTask")
    /\ N = 2
    /\ args.next_state[1] = <<x_threshold, 60, -theta_threshold_radians, -60>>
    /\ args.next_state[2] = <<0, 0, theta_threshold_radians + 1, 0>>
    /\ ret.done = <<(<<0>>), (<<One>>)>>
    /\ ret.cost = <<-One, 0>>

\* C6: ant get_cost, row by row: done is 1 if any component of the next state is
\* not finite or the height (component 2) is below 0.2 or above 1.0, and 0 exactly
\* when all are finite and the height lies in [0.2, 1.0]; a row's done depends on
\* that row alone.
C6_AntDone ==
    GetCostOf("AntTask") =>
        /\ Len(ret.done) = N
        /\ \A i \in 1..N :
            LET row == args.next_state[i]
                alive == /\ \A j \in 1..Len(row) : row[j] \notin {NaN, PosInf, NegInf}
                         /\ row[3] >= 4
                         /\ row[3] <= One
            IN  ret.done[i] = IF alive THEN <<0>> ELSE <<One>>

C6_Witness ==
    /\ GetCostOf("AntTask")
    /\ N = 2
    /\ args.next_state[1][3] = NaN
    /\ args.next_state[2] = <<2, 0, 4>>
    /\ ret.done = <<(<<One>>), (<<0>>)>>

\* C7: half-cheetah and swimmer get_cost never report termination: for a batch of
\* N rows, whatever its values, done is N rows of one zero, one row per cost entry.
C7_NeverDone ==
    (GetCostOf("HalfCheetahTask") \/ GetCostOf("SwimmerTask")) =>
        /\ Len(ret.cost) = N
        /\ ret.done = [i \in 1..N |-> <<0>>]

C7_Witness ==
    /\ GetCostOf("SwimmerTask")
    /\ N = 2
    /\ args.next_state[1][1] = NaN
    /\ args.action[2] = <<PosInf>>
    /\ ret.done = <<(<<0>>), (<<0>>)>>

\* C8: on an articulated-body task, after set_new_state(state) with a state of
\* position_dim + velocity_dim entries, the composed observation is state: its
\* first position_dim entries are the positions, the rest the velocities; this
\* holds after any sequence of step, reset and set_new_state calls.
C8_RoundTrip ==
    (op = "set_new_state" /\ task \in MujocoTasks /\ Len(args) = model.nq + model.nv) =>
        /\ ret.raised = "none"
        /\ get_obs(sim) = args
        /\ sim.qpos = [i \in 1..model.nq |-> args[i]]
        /\ sim.qvel = [i \in 1..model.nv |-> args[model.nq + i]]

C8_Witness ==
    /\ op = "set_new_state"
    /\ task = "AntTask"
    /\ args = <<3, 0, 3>>
    /\ sim.qpos = <<3, 0>>
    /\ sim.qvel = <<3>>

ReadOnlyOps == {"get_cost", "get_reset_state", "get_control_params"}

\* C9: get_cost, get_reset_state and get_control_params leave the simulator's
\* internal state as it was; it changes only through step, reset and
\* set_new_state.
C9_Frame ==
    [][/\ op' \in ReadOnlyOps => sim' = sim
       /\ sim' # sim => op' \in {"step", "reset", "set_new_state"}]_vars

C9_Witness ==
    /\ op \in ReadOnlyOps
    /\ ret.raised = "none"
    /\ sim # InitSim(task)

\* C10: cart-pole step returns reward 0 when the native simulator reports done and
\* the native reward otherwise; the next state (as float32), the done flag and the
\* info are the native simulator's in both cases.
C10_CartPoleReward ==
    (op = "step" /\ task = "CartPoleTask" /\ ret.raised = "none") =>
        /\ ret.reward = IF ret.native.done THEN 0 ELSE ret.native.reward
        /\ ret.done = ret.native.done
        /\ ret.info = ret.native.info
        /\ Len(ret.next_state) = Len(ret.native.next_state)
        /\ \A i \in DOMAIN ret.next_state : AsFloat32(ret.native.next_state[i], ret.next_state[i])

C10_Witness ==
    /\ op = "step"
    /\ task = "CartPoleTask"
    /\ ret.raised = "none"
    /\ ret.native.done
    /\ ret.native.reward = One
    /\ ret.reward = 0

====
